---- MODULE Spec2Model ----
(***************************************************************************)
(* Deep Q-Learning with experience replay for the Lunar Lander, as written *)
(* in "Lunar Lander/Lunar_Lander.ipynb": the replay buffer, the target     *)
(* computation of compute_loss, the learning step agent_learn, and the     *)
(* training loop.  Real numbers are exact rationals [n, d] in lowest terms *)
(* (d > 0).  The helpers of the module `utils` (get_action,                *)
(* check_update_conditions, get_experiences, update_target_network,        *)
(* get_new_eps) are imported by the notebook; they are modelled from the   *)
(* specification document.                                                 *)
(***************************************************************************)
EXTENDS Integers, Sequences, FiniteSets, TLC

VARIABLES
    hyper,                \* the hyperparameters held by utils: E_DECAY, E_MIN, TAU
    env,                  \* which environment gym.make returned: "sim" or "stub"
    pc,                   \* position of the training cell
    q_network,            \* parameters of the primary approximator
    target_q_network,     \* parameters of the target approximator
    memory_buffer,        \* deque(maxlen=MEMORY_SIZE) of experiences
    total_point_history,  \* list of episode totals
    av_latest_points,     \* <<>> before the first average, else <<mean>>
    epsilon,              \* exploration rate
    i,                    \* index of the running episode
    t,                    \* index of the running time step
    state,                \* current observation
    total_points,         \* reward accumulated in the running episode
    sample_out,           \* <<>> or <<result>> of a stand-alone get_experiences call
    error,                \* "none" or the exception that ended the run
    model_file,           \* the writes of q_network.save, in order
    num_appended,         \* history: number of memory_buffer.append calls
    num_learn,            \* history: number of agent_learn calls
    primary_ticks,        \* history: primary parameters at every update tick
    loss_in,              \* arguments of a stand-alone compute_loss call
    loss_out              \* <<>> or <<[y_targets, loss]>>

vars == << hyper, env, pc, q_network, target_q_network, memory_buffer,
           total_point_history, av_latest_points, epsilon, i, t, state,
           total_points, sample_out, error, model_file, num_appended,
           num_learn, primary_ticks, loss_in, loss_out >>

----------------------------------------------------------------------------
(* Exact rational arithmetic.  Each operator binds its arguments once    *)
(* (x \in {e}), so that an argument is evaluated once however often the    *)
(* body uses it.                                                           *)

Abs(x) == IF x < 0 THEN -x ELSE x

RECURSIVE GCD(_, _)
GCD(a, b) ==
    IF b = 0 THEN a
    ELSE CHOOSE g \in {GCD(b, r) : r \in {a % b}} : TRUE

Norm(n0, d0) ==
    CHOOSE q \in {[n |-> n \div g, d |-> d \div g] :
                    n \in {n0}, d \in {d0}, g \in {GCD(Abs(n0), d0)}} : TRUE

R(n, d) == Norm(n, d)
RInt(k) == [n |-> k, d |-> 1]

RAdd(a0, b0) ==
    CHOOSE q \in {Norm(a.n * (((a.d \div GCD(a.d, b.d)) * b.d) \div a.d)
                         + b.n * (((a.d \div GCD(a.d, b.d)) * b.d) \div b.d),
                       (a.d \div GCD(a.d, b.d)) * b.d) :
                    a \in {a0}, b \in {b0}} : TRUE

RNeg(a) == [n |-> -a.n, d |-> a.d]
RSub(a, b) == RAdd(a, RNeg(b))
RAbs(a) == [n |-> Abs(a.n), d |-> a.d]

RMul(a0, b0) ==
    CHOOSE q \in {Norm((a.n \div GCD(Abs(a.n), b.d)) * (b.n \div GCD(Abs(b.n), a.d)),
                       (a.d \div GCD(Abs(b.n), a.d)) * (b.d \div GCD(Abs(a.n), b.d))) :
                    a \in {a0}, b \in {b0}} : TRUE

RLeq(a, b) == a.n * b.d <= b.n * a.d
RLt(a, b) == a.n * b.d < b.n * a.d
RMax(a0, b0) ==
    CHOOSE q \in {IF RLeq(a, b) THEN b ELSE a : a \in {a0}, b \in {b0}} : TRUE
RMin(a0, b0) ==
    CHOOSE q \in {IF RLeq(a, b) THEN a ELSE b : a \in {a0}, b \in {b0}} : TRUE

RECURSIVE RPow(_, _)
RPow(a, k) == IF k = 0 THEN RInt(1) ELSE RMul(a, RPow(a, k - 1))

Min(a, b) == IF a <= b THEN a ELSE b
Max(a, b) == IF a >= b THEN a ELSE b

----------------------------------------------------------------------------
(* Hyperparameters and bounds.                                             *)

\* MEMORY_SIZE = 100_000 in the notebook; scaled down.
MEMORY_SIZE == 2
\* NUM_STEPS_FOR_UPDATE = 4 in the notebook; scaled down.
NUM_STEPS_FOR_UPDATE == 1
\* num_episodes = 2000 in the notebook; scaled down.
num_episodes == 2
\* max_num_timesteps = 1000 in the notebook; scaled down.
max_num_timesteps == 2
\* num_p_av = 100 in the notebook; scaled down.
num_p_av == 1
\* the mini-batch size of utils; scaled down.
BATCH_SIZE == 2
\* env.action_space.n is 4 for the lander; scaled down.
num_actions == 2
\* observations are 8 reals; here 0 .. NumStates-1.
NumStates == 2

GAMMA == R(995, 1000)
SOLVED == RInt(200)

States == 0 .. (NumStates - 1)
Actions == 0 .. (num_actions - 1)

\* The constants of utils the model is run with: epsilon decays geometrically
\* for one episode and is at its floor from the second on.
Hypers ==
    { [E_DECAY |-> R(1, 20), E_MIN |-> R(1, 100), TAU |-> R(1, 10)] }

----------------------------------------------------------------------------
(* The approximators: a parameter table, one value per (state, action).     *)

Forward(net, s) == net[s]

ZeroNet == [s \in States |-> [a \in 1 .. num_actions |-> RInt(0)]]
TenNet ==
    [s \in States |-> [a \in 1 .. num_actions |->
        IF (s + a) % 2 = 1 THEN RInt(10) ELSE RInt(0)]]

\* The parameter values Keras' initialisers and the optimizer may produce.
NetChoices == {ZeroNet, TenNet}

RECURSIVE SeqMax(_)
SeqMax(q) ==
    IF Len(q) = 1 THEN q[1]
    ELSE RMax(q[1], SeqMax(Tail(q)))

\* np.argmax: the first index of the largest value (actions count from 0).
ArgMax(q) ==
    CHOOSE a \in 0 .. (Len(q) - 1) :
        /\ \A b \in 0 .. (Len(q) - 1) : RLeq(q[b + 1], q[a + 1])
        /\ \A b \in 0 .. (a - 1) : RLt(q[b + 1], q[a + 1])

----------------------------------------------------------------------------
(* The environment collaborator.                                           *)

\* Both environments reset to observation 0.
\* "stub": reward 200 and done on the first step of every episode.
\* "sim": the lander moves to the observation the action names; a step that
\* goes on costs 100, a step that ends the episode is a crash or a landing.
EnvReset(e) == {0}

SimResults == {<<-100, FALSE>>, <<-100, TRUE>>, <<200, TRUE>>}

EnvStep(e, s, a) ==
    IF e = "stub"
    THEN {[next_state |-> s, reward |-> 200, done |-> TRUE]}
    ELSE {[next_state |-> a % NumStates, reward |-> r[1], done |-> r[2]] :
            r \in SimResults}

----------------------------------------------------------------------------
(* The replay buffer.                                                      *)

experience(s, a, r, ns, d) ==
    [state |-> s, action |-> a, reward |-> r, next_state |-> ns, done |-> d]

\* deque(maxlen=MEMORY_SIZE).append: a full deque drops its left end.
DequeAppendNoEvict(buf, e) == Append(buf, e)
DequeAppend(buf, e) ==
    IF Len(buf) = MEMORY_SIZE
    THEN Append(Tail(buf), e)
    ELSE Append(buf, e)

----------------------------------------------------------------------------
(* The helpers of utils.                                                   *)

\* epsilon-greedy: a uniformly random action with probability epsilon, else argmax.
get_action(q_values, eps) ==
    (IF RLt(RInt(0), eps) THEN 0 .. (Len(q_values) - 1) ELSE {})
        \cup (IF RLt(eps, RInt(1)) THEN {ArgMax(q_values)} ELSE {})

\* The step counter has counted the step just taken: t + 1 for the loop index t.
check_update_conditions(tt, num_steps_upd, buf) ==
    ((tt + 1) % num_steps_upd = 0) /\ (Len(buf) >= BATCH_SIZE)

\* The sequences of k pairwise distinct positions of a buffer of length n.
InjSeqs(n, k) ==
    {sq \in [1 .. k -> 1 .. n] : \A x, y \in 1 .. k : x # y => sq[x] # sq[y]}

DoneVal(d) == IF d THEN 1 ELSE 0

\* A list of experiences as five parallel sequences; done flags become 0 / 1.
Unzip(es) ==
    [states |-> [j \in DOMAIN es |-> es[j].state],
     actions |-> [j \in DOMAIN es |-> es[j].action],
     rewards |-> [j \in DOMAIN es |-> es[j].reward],
     next_states |-> [j \in DOMAIN es |-> es[j].next_state],
     done_vals |-> [j \in DOMAIN es |-> DoneVal(es[j].done)]]

\* sample: the possible results, an error or the elements at BATCH_SIZE
\* pairwise distinct positions idx.
get_experiences(buf) ==
    IF Len(buf) < BATCH_SIZE
    THEN {[error |-> "InsufficientDataError", idx |-> <<>>, batch |-> Unzip(<<>>)]}
    ELSE {[error |-> "none", idx |-> sq,
           batch |-> Unzip([j \in 1 .. BATCH_SIZE |-> buf[sq[j]]])]
          : sq \in InjSeqs(Len(buf), BATCH_SIZE)}

\* Soft update of every target parameter: tau * primary + (1 - tau) * target.
update_target_network(q, tq) ==
    [s \in DOMAIN tq |-> [a \in DOMAIN tq[s] |->
        RAdd(RMul(hyper.TAU, q[s][a]),
             RMul(RSub(RInt(1), hyper.TAU), tq[s][a]))]]

get_new_eps(eps) == RMax(hyper.E_MIN, RMul(hyper.E_DECAY, eps))

----------------------------------------------------------------------------
(* compute_loss and agent_learn.                                           *)

\* max_qsa = tf.reduce_max(target_q_network(next_states), axis=-1)
MaxQsa(exps, tq) ==
    [j \in DOMAIN exps.next_states |-> SeqMax(Forward(tq, exps.next_states[j]))]

\* y_targets = rewards + (1 - done_vals) * (gamma * max_qsa)
YTargetsNoMask(exps, gamma, tq) ==
    [j \in DOMAIN exps.rewards |->
        RAdd(RInt(exps.rewards[j]), RMul(gamma, MaxQsa(exps, tq)[j]))]
YTargets(exps, gamma, tq) ==
    [j \in DOMAIN exps.rewards |->
        RAdd(RInt(exps.rewards[j]),
             RMul(RInt(1 - exps.done_vals[j]),
                  RMul(gamma, MaxQsa(exps, tq)[j])))]

\* tf.gather_nd: the value of the action taken, by index.
QValues(exps, q) ==
    [j \in DOMAIN exps.states |-> Forward(q, exps.states[j])[exps.actions[j] + 1]]

RECURSIVE RSum(_)
RSum(sq) == IF Len(sq) = 0 THEN RInt(0) ELSE RAdd(sq[1], RSum(Tail(sq)))

MSE(y, q) ==
    RMul(R(1, Len(y)),
         RSum([j \in DOMAIN y |-> RMul(RSub(y[j], q[j]), RSub(y[j], q[j]))]))

compute_loss(exps, gamma, q, tq) == MSE(YTargets(exps, gamma, tq), QValues(exps, q))

\* optimizer.apply_gradients: Adam is an external library; any parameter
\* values may come out of it.
ApplyGradients(q, loss) == NetChoices

\* agent_learn: the gradient update of the primary, then the soft update of
\* the target from the updated primary.  `newq` is the optimizer's result.
AgentLearnNoSync(q, tq, newq) == [q |-> newq, tq |-> tq]
AgentLearn(q, tq, newq) == [q |-> newq, tq |-> update_target_network(newq, tq)]

----------------------------------------------------------------------------
(* The moving average of the training loop.                                *)

NaN == [n |-> 0, d |-> 0]

RECURSIVE Sum(_)
Sum(sq) == IF Len(sq) = 0 THEN 0 ELSE sq[1] + Sum(Tail(sq))

\* np.mean: the sum over the length; nan for an empty list.
Mean(sq) == IF Len(sq) = 0 THEN NaN ELSE R(Sum(sq), Len(sq))

\* The slice sq[-n:] for n > 0.
LastNAll(sq, n) == sq
LastN(sq, n) == SubSeq(sq, Max(1, Len(sq) - n + 1), Len(sq))

\* a >= b on floats: false when a is nan.
Geq(a, b) == a.d # 0 /\ RLeq(b, a)

\* if av_latest_points >= 200.0
SolvedStrict(av) == av.d # 0 /\ RLt(SOLVED, av)
Solved(av) == Geq(av, SOLVED)

\* for i in range(num_episodes): is there a next episode after episode ii
LoopContinuesOneMore(ii) == ii + 1 <= num_episodes
LoopContinues(ii) == ii + 1 < num_episodes

----------------------------------------------------------------------------
(* The training cell.                                                      *)

\* The state once the networks are built and before the training cell runs.
Init ==
    /\ hyper \in Hypers
    /\ env \in {"sim", "stub"}
    /\ pc = "setup"
    /\ q_network \in NetChoices
    /\ target_q_network \in NetChoices
    /\ memory_buffer = <<>>
    /\ total_point_history = <<>>
    /\ av_latest_points = <<>>
    /\ epsilon = RInt(1)
    /\ i = 0
    /\ t = 0
    /\ state = 0
    /\ total_points = 0
    /\ sample_out = <<>>
    /\ error = "none"
    /\ model_file = <<>>
    /\ num_appended = 0
    /\ num_learn = 0
    /\ primary_ticks = {}
    /\ loss_in = <<>>
    /\ loss_out = <<>>

\* Everything before the episode loop: the empty history and buffer, epsilon 1.0
\* and the copy of the primary's weights into the target.
SetupNoCopy ==
    /\ pc = "setup"
    /\ total_point_history' = <<>>
    /\ epsilon' = RInt(1)
    /\ memory_buffer' = <<>>
    /\ primary_ticks' = {q_network}
    /\ pc' = IF num_episodes > 0 THEN "episode_start" ELSE "exhausted"
    /\ i' = 0
    /\ UNCHANGED << hyper, env, q_network, target_q_network, av_latest_points, t,
                    state, total_points, sample_out, error, model_file,
                    num_appended, num_learn, loss_in, loss_out >>
Setup ==
    /\ pc = "setup"
    /\ total_point_history' = <<>>
    /\ epsilon' = RInt(1)
    /\ memory_buffer' = <<>>
    /\ target_q_network' = q_network
    /\ primary_ticks' = {q_network}
    /\ pc' = IF num_episodes > 0 THEN "episode_start" ELSE "exhausted"
    /\ i' = 0
    /\ UNCHANGED << hyper, env, q_network, av_latest_points, t, state,
                    total_points, sample_out, error, model_file, num_appended,
                    num_learn, loss_in, loss_out >>

\* The head of the episode loop: env.reset(), total_points = 0, and the step
\* loop's first index.
ResetEpisodeCopy ==
    /\ pc = "episode_start"
    /\ state' \in EnvReset(env)
    /\ total_points' = 0
    /\ t' = 0
    /\ target_q_network' = q_network
    /\ pc' = IF max_num_timesteps > 0 THEN "step" ELSE "episode_end"
    /\ UNCHANGED << hyper, env, q_network, memory_buffer,
                    total_point_history, av_latest_points, epsilon, i,
                    sample_out, error, model_file, num_appended, num_learn,
                    primary_ticks, loss_in, loss_out >>
ResetEpisode ==
    /\ pc = "episode_start"
    /\ state' \in EnvReset(env)
    /\ total_points' = 0
    /\ t' = 0
    /\ pc' = IF max_num_timesteps > 0 THEN "step" ELSE "episode_end"
    /\ UNCHANGED << hyper, env, q_network, target_q_network, memory_buffer,
                    total_point_history, av_latest_points, epsilon, i,
                    sample_out, error, model_file, num_appended, num_learn,
                    primary_ticks, loss_in, loss_out >>

\* The end of the step loop's body: state = next_state, the reward is added,
\* the loop breaks on done and ends after max_num_timesteps steps.
AdvanceIgnoreDone(out) ==
    /\ state' = out.next_state
    /\ total_points' = total_points + out.reward
    /\ IF t + 1 < max_num_timesteps
       THEN t' = t + 1 /\ pc' = "step"
       ELSE t' = t /\ pc' = "episode_end"
Advance(out) ==
    /\ state' = out.next_state
    /\ total_points' = total_points + out.reward
    /\ IF (~out.done) /\ t + 1 < max_num_timesteps
       THEN t' = t + 1 /\ pc' = "step"
       ELSE t' = t /\ pc' = "episode_end"

\* The learning branch: sample a mini-batch and call agent_learn.
Learn(buf, out) ==
    \E res \in get_experiences(buf) :
        IF res.error # "none"
        THEN /\ error' = res.error
             /\ pc' = "failed"
             /\ UNCHANGED << q_network, target_q_network, num_learn,
                             primary_ticks, state, total_points, t >>
        ELSE /\ \E newq \in ApplyGradients(q_network,
                                compute_loss(res.batch, GAMMA, q_network, target_q_network)) :
                   LET r == AgentLearn(q_network, target_q_network, newq)
                   IN  /\ q_network' = r.q
                       /\ target_q_network' = r.tq
                       /\ primary_ticks' = primary_ticks \cup {r.q}
             /\ num_learn' = num_learn + 1
             /\ error' = error
             /\ Advance(out)

\* One pass of the step loop's body.
StepAlwaysLearn ==
    /\ pc = "step"
    /\ \E action \in get_action(Forward(q_network, state), epsilon) :
       \E out \in EnvStep(env, state, action) :
          LET buf == DequeAppend(memory_buffer,
                        experience(state, action, out.reward, out.next_state, out.done))
          IN  /\ memory_buffer' = buf
              /\ num_appended' = num_appended + 1
              /\ Learn(buf, out)
    /\ UNCHANGED << hyper, env, total_point_history, av_latest_points, epsilon,
                    i, model_file, sample_out, loss_in, loss_out >>
Step ==
    /\ pc = "step"
    /\ \E action \in get_action(Forward(q_network, state), epsilon) :
       \E out \in EnvStep(env, state, action) :
          LET buf == DequeAppend(memory_buffer,
                        experience(state, action, out.reward, out.next_state, out.done))
          IN  /\ memory_buffer' = buf
              /\ num_appended' = num_appended + 1
              /\ IF check_update_conditions(t, NUM_STEPS_FOR_UPDATE, buf)
                 THEN Learn(buf, out)
                 ELSE /\ Advance(out)
                      /\ UNCHANGED << q_network, target_q_network, num_learn,
                                      primary_ticks, error >>
    /\ UNCHANGED << hyper, env, total_point_history, av_latest_points, epsilon,
                    i, model_file, sample_out, loss_in, loss_out >>

\* After the step loop: the total joins the history, the average of the last
\* num_p_av totals, the new epsilon, and the solved test.
EpisodeEndNoDecay ==
    /\ pc = "episode_end"
    /\ total_point_history' = Append(total_point_history, total_points)
    /\ av_latest_points' = << Mean(LastN(total_point_history', num_p_av)) >>
    /\ epsilon' = epsilon
    /\ IF Solved(av_latest_points'[1])
       THEN /\ model_file' = Append(model_file, q_network)
            /\ pc' = "converged"
            /\ i' = i
       ELSE /\ model_file' = model_file
            /\ IF LoopContinues(i)
               THEN i' = i + 1 /\ pc' = "episode_start"
               ELSE i' = i /\ pc' = "exhausted"
    /\ UNCHANGED << hyper, env, q_network, target_q_network, memory_buffer, t,
                    state, total_points, sample_out, error, num_appended,
                    num_learn, primary_ticks, loss_in, loss_out >>
EpisodeEndSaveAlways ==
    /\ pc = "episode_end"
    /\ total_point_history' = Append(total_point_history, total_points)
    /\ av_latest_points' = << Mean(LastN(total_point_history', num_p_av)) >>
    /\ epsilon' = get_new_eps(epsilon)
    /\ model_file' = Append(model_file, q_network)
    /\ IF Solved(av_latest_points'[1])
       THEN /\ pc' = "converged"
            /\ i' = i
       ELSE IF LoopContinues(i)
            THEN i' = i + 1 /\ pc' = "episode_start"
            ELSE i' = i /\ pc' = "exhausted"
    /\ UNCHANGED << hyper, env, q_network, target_q_network, memory_buffer, t,
                    state, total_points, sample_out, error, num_appended,
                    num_learn, primary_ticks, loss_in, loss_out >>
EpisodeEnd ==
    /\ pc = "episode_end"
    /\ total_point_history' = Append(total_point_history, total_points)
    /\ av_latest_points' = << Mean(LastN(total_point_history', num_p_av)) >>
    /\ epsilon' = get_new_eps(epsilon)
    /\ IF Solved(av_latest_points'[1])
       THEN /\ model_file' = Append(model_file, q_network)
            /\ pc' = "converged"
            /\ i' = i
       ELSE /\ model_file' = model_file
            /\ IF LoopContinues(i)
               THEN i' = i + 1 /\ pc' = "episode_start"
               ELSE i' = i /\ pc' = "exhausted"
    /\ UNCHANGED << hyper, env, q_network, target_q_network, memory_buffer, t,
                    state, total_points, sample_out, error, num_appended,
                    num_learn, primary_ticks, loss_in, loss_out >>

Next == Setup \/ ResetEpisode \/ Step \/ EpisodeEnd

Spec == Init /\ [][Next]_vars

\* The cell is one sequential thread: it takes its next step whenever it has one.
FairSpec == Spec /\ WF_vars(Next)

----------------------------------------------------------------------------
(* get_experiences on its own, on any buffer.                              *)

\* The experiences the "sim" environment produces from observation 0.
SampleExps ==
    {experience(0, a, r[1], a % NumStates, r[2]) : a \in Actions, r \in SimResults}

RECURSIVE SeqsUpTo(_, _)
SeqsUpTo(S, n) ==
    IF n = 0 THEN {<<>>}
    ELSE LET shorter == SeqsUpTo(S, n - 1)
         IN  shorter \cup {Append(sq, x) : sq \in {y \in shorter : Len(y) = n - 1}, x \in S}

Defaults ==
    /\ hyper \in Hypers
    /\ env = "sim"
    /\ total_point_history = <<>>
    /\ av_latest_points = <<>>
    /\ epsilon = RInt(1)
    /\ i = 0
    /\ t = 0
    /\ state = 0
    /\ total_points = 0
    /\ error = "none"
    /\ model_file = <<>>
    /\ num_appended = 0
    /\ num_learn = 0
    /\ primary_ticks = {}

InitSample ==
    /\ Defaults
    /\ pc = "sample_call"
    /\ q_network = ZeroNet
    /\ target_q_network = ZeroNet
    /\ memory_buffer \in SeqsUpTo(SampleExps, MEMORY_SIZE)
    /\ sample_out = <<>>
    /\ loss_in = <<>>
    /\ loss_out = <<>>

\* experiences = utils.get_experiences(memory_buffer)
SampleCallPop ==
    /\ pc = "sample_call"
    /\ \E res \in get_experiences(memory_buffer) :
          /\ sample_out' = <<res>>
          /\ error' = res.error
    /\ memory_buffer' = IF Len(memory_buffer) = 0 THEN memory_buffer ELSE Tail(memory_buffer)
    /\ pc' = "sample_done"
    /\ UNCHANGED << hyper, env, q_network, target_q_network,
                    total_point_history, av_latest_points, epsilon, i, t, state,
                    total_points, model_file, num_appended, num_learn,
                    primary_ticks, loss_in, loss_out >>
SampleCall ==
    /\ pc = "sample_call"
    /\ \E res \in get_experiences(memory_buffer) :
          /\ sample_out' = <<res>>
          /\ error' = res.error
    /\ pc' = "sample_done"
    /\ UNCHANGED << hyper, env, q_network, target_q_network, memory_buffer,
                    total_point_history, av_latest_points, epsilon, i, t, state,
                    total_points, model_file, num_appended, num_learn,
                    primary_ticks, loss_in, loss_out >>

NextSample == SampleCall

SpecSample == InitSample /\ [][NextSample]_vars

----------------------------------------------------------------------------
(* compute_loss on its own, on any mini-batch.                             *)

Net1234 == [s \in States |-> << RInt(1), RInt(2), RInt(3), RInt(4) >>]
NetMixed ==
    [s \in States |->
        IF s = 0 THEN << RInt(-3), RInt(7), R(1, 2), RInt(7) >>
        ELSE << RInt(-4), RInt(-1), RInt(-2), RInt(-9) >>]

LossExps ==
    {experience(s, a, r, (s + 1) % NumStates, d) :
        s \in States, a \in {0, 3}, r \in {5, -1}, d \in BOOLEAN}

LossBatches == {Unzip(es) : es \in (SeqsUpTo(LossExps, 2) \ {<<>>})}

Gammas == {GAMMA, R(1, 2)}

InitLoss ==
    /\ Defaults
    /\ pc = "loss_call"
    /\ q_network = NetMixed
    /\ target_q_network \in {Net1234, NetMixed}
    /\ memory_buffer = <<>>
    /\ sample_out = <<>>
    /\ loss_in \in [experiences : LossBatches, gamma : Gammas]
    /\ loss_out = <<>>

\* loss = compute_loss(experiences, gamma, q_network, target_q_network)
ComputeLossCall ==
    /\ pc = "loss_call"
    /\ loss_out' =
         << [y_targets |-> YTargets(loss_in.experiences, loss_in.gamma, target_q_network),
             loss |-> compute_loss(loss_in.experiences, loss_in.gamma,
                                   q_network, target_q_network)] >>
    /\ pc' = "loss_done"
    /\ UNCHANGED << hyper, env, q_network, target_q_network, memory_buffer,
                    total_point_history, av_latest_points, epsilon, i, t, state,
                    total_points, sample_out, error, model_file, num_appended,
                    num_learn, primary_ticks, loss_in >>

NextLoss == ComputeLossCall

SpecLoss == InitLoss /\ [][NextLoss]_vars

----------------------------------------------------------------------------
(* Properties.                                                             *)

\* C1: the buffer never holds more than MEMORY_SIZE experiences (its length is
\* the number of appends, capped at MEMORY_SIZE); every append keeps the stored
\* experiences as they are and in order, puts the new one at the back and,
\* when the buffer was full, drops exactly the oldest one; nothing else
\* changes the buffer.  By induction the buffer is the MEMORY_SIZE most
\* recently appended experiences in insertion order.
C1_BufferLen == Len(memory_buffer) = Min(num_appended, MEMORY_SIZE)
C1_BufferAct ==
    IF num_appended' = num_appended + 1
    THEN LET kept == Min(Len(memory_buffer), MEMORY_SIZE - 1)
         IN  /\ Len(memory_buffer') = kept + 1
             /\ SubSeq(memory_buffer', 1, kept)
                  = SubSeq(memory_buffer, Len(memory_buffer) - kept + 1, Len(memory_buffer))
             /\ memory_buffer'[kept + 1].state = state
    ELSE /\ num_appended' = num_appended
         /\ memory_buffer' = memory_buffer
C1_BufferFifo == [](C1_BufferLen /\ Len(memory_buffer) <= MEMORY_SIZE) /\ [][C1_BufferAct]_vars
C1_Witness ==
    /\ num_appended > MEMORY_SIZE
    /\ Len(memory_buffer) = MEMORY_SIZE
    /\ memory_buffer[1] # memory_buffer[MEMORY_SIZE]

\* C2: a get_experiences call on a buffer shorter than BATCH_SIZE ends with
\* InsufficientDataError, a call on a longer or equal one returns BATCH_SIZE
\* elements (five sequences of that length) read at pairwise distinct
\* positions of the buffer; the buffer is the same after either.
C2_SampleAct ==
    (pc = "sample_call" /\ pc' = "sample_done") =>
        /\ memory_buffer' = memory_buffer
        /\ Len(sample_out') = 1
        /\ LET res == sample_out'[1]
           IN  IF Len(memory_buffer) < BATCH_SIZE
               THEN /\ error' = "InsufficientDataError"
                    /\ res.error = "InsufficientDataError"
                    /\ Len(res.batch.states) = 0
               ELSE /\ error' = "none"
                    /\ res.error = "none"
                    /\ Len(res.idx) = BATCH_SIZE
                    /\ \A x, y \in 1 .. BATCH_SIZE : x # y => res.idx[x] # res.idx[y]
                    /\ \A x \in 1 .. BATCH_SIZE : res.idx[x] \in 1 .. Len(memory_buffer)
                    /\ Len(res.batch.states) = BATCH_SIZE
                    /\ Len(res.batch.actions) = BATCH_SIZE
                    /\ Len(res.batch.rewards) = BATCH_SIZE
                    /\ Len(res.batch.next_states) = BATCH_SIZE
                    /\ Len(res.batch.done_vals) = BATCH_SIZE
                    /\ \A x \in 1 .. BATCH_SIZE :
                          LET e == memory_buffer[res.idx[x]]
                          IN  /\ res.batch.states[x] = e.state
                              /\ res.batch.actions[x] = e.action
                              /\ res.batch.rewards[x] = e.reward
                              /\ res.batch.next_states[x] = e.next_state
                              /\ (res.batch.done_vals[x] = 1) = e.done
C2_Sample == [][C2_SampleAct]_vars
C2_Witness ==
    /\ pc = "sample_done"
    /\ Len(memory_buffer) = BATCH_SIZE - 1
    /\ Len(memory_buffer) > 0
    /\ error = "InsufficientDataError"

\* C3: after compute_loss, the target of every transition j is its reward when
\* done_j, and its reward plus gamma times the largest value of the target
\* approximator for next_state_j when not done_j; values [1,2,3,4], reward 5
\* and gamma 0.995 give 8.98.
LargestOf(q) == CHOOSE v \in {q[a] : a \in DOMAIN q} : \A a \in DOMAIN q : RLeq(q[a], v)
C3_Targets ==
    pc = "loss_done" =>
        LET b == loss_in.experiences
            y == loss_out[1].y_targets
        IN  /\ DOMAIN y = DOMAIN b.rewards
            /\ \A j \in DOMAIN y :
                 LET best == LargestOf(target_q_network[b.next_states[j]])
                 IN  /\ b.done_vals[j] = 1 => y[j] = RInt(b.rewards[j])
                     /\ b.done_vals[j] = 0 =>
                           /\ y[j].n * loss_in.gamma.d * best.d
                                = y[j].d * (b.rewards[j] * loss_in.gamma.d * best.d
                                             + loss_in.gamma.n * best.n)
                           /\ (best = RInt(4) /\ b.rewards[j] = 5 /\ loss_in.gamma = R(995, 1000))
                                => y[j] = R(898, 100)
C3_Witness ==
    /\ pc = "loss_done"
    /\ target_q_network = Net1234
    /\ loss_in.gamma = R(995, 1000)
    /\ Len(loss_in.experiences.rewards) = 2
    /\ loss_in.experiences.rewards[1] = 5
    /\ loss_in.experiences.done_vals[1] = 0
    /\ loss_out[1].y_targets[1] = R(898, 100)
    /\ loss_in.experiences.done_vals[2] = 1
    /\ loss_out[1].y_targets[2] = RInt(loss_in.experiences.rewards[2])

\* C4: a step of the training cell that is not a learning step leaves the primary
\* parameters unchanged, and leaves the target parameters unchanged unless it is
\* the initial copy (which sets them to the primary's); a learning step happens
\* only inside the step loop and sets the target to the soft update of the old
\* target with the updated primary.
C4_FrameAct ==
    /\ num_learn' = num_learn =>
         /\ q_network' = q_network
         /\ \/ target_q_network' = target_q_network
            \/ pc = "setup" /\ target_q_network' = q_network
    /\ num_learn' # num_learn =>
         /\ num_learn' = num_learn + 1
         /\ pc = "step"
         /\ num_appended' = num_appended + 1
         /\ target_q_network' = update_target_network(q_network', target_q_network)
C4_Frame == [][C4_FrameAct]_vars
C4_Witness ==
    /\ num_learn = 1
    /\ pc = "step"
    /\ q_network # target_q_network
    /\ num_appended > NUM_STEPS_FOR_UPDATE

\* C5: every learning step sets each target parameter to
\* tau * primary + (1 - tau) * target, with the primary as just updated, and
\* the new value lies between the old target value and the primary value:
\* the target moves toward the primary and never past it.
C5_SoftAct ==
    num_learn' = num_learn + 1 =>
        \A s \in DOMAIN target_q_network : \A a \in DOMAIN target_q_network[s] :
            LET old == target_q_network[s][a]
                new == target_q_network'[s][a]
                prim == q_network'[s][a]
                tau == hyper.TAU
            IN  /\ new.n * tau.d * prim.d * old.d
                     = new.d * (tau.n * prim.n * old.d + (tau.d - tau.n) * old.n * prim.d)
                /\ RLeq(RMin(old, prim), new)
                /\ RLeq(new, RMax(old, prim))
                /\ RLeq(RAbs(RSub(prim, new)), RAbs(RSub(prim, old)))
C5_SoftUpdate == [][C5_SoftAct]_vars
C5_Witness ==
    /\ num_learn = 1
    /\ hyper.TAU = R(1, 10)
    /\ primary_ticks = {ZeroNet, TenNet}
    /\ \E s \in States : \E a \in 1 .. num_actions :
          q_network[s][a] = RInt(10) /\ target_q_network[s][a] = RInt(1)

\* C6 (as claimed): once the initial copy is made, every target parameter
\* equals the value the primary parameter had at some update tick so far.
TickVals(s, a) == {p[s][a] : p \in primary_ticks}
C6_TargetIsEarlierPrimary ==
    pc # "setup" =>
        \A s \in DOMAIN target_q_network : \A a \in DOMAIN target_q_network[s] :
            target_q_network[s][a] \in TickVals(s, a)

\* C6 (amended): once the initial copy is made, every target parameter lies
\* between the smallest and the largest value the primary parameter had at the
\* update ticks so far (the initial copy included), and the target equals the
\* primary until the first learning step.
C6_TargetWithinPrimaryRange ==
    pc # "setup" =>
        /\ q_network \in primary_ticks
        /\ num_learn = 0 => target_q_network = q_network
        /\ \A s \in DOMAIN target_q_network : \A a \in DOMAIN target_q_network[s] :
              \E lo, hi \in TickVals(s, a) :
                  /\ RLeq(lo, target_q_network[s][a])
                  /\ RLeq(target_q_network[s][a], hi)
C6_Witness ==
    /\ num_learn >= 1
    /\ target_q_network \notin primary_ticks
    /\ target_q_network # q_network
    /\ Cardinality(primary_ticks) = 2

\* C7: epsilon is 1.0 at the start, lies between E_MIN and 1.0, and after k
\* completed episodes equals max(E_MIN, E_DECAY^k); it never grows, an episode
\* end sets it to max(E_MIN, E_DECAY * epsilon), and no other step changes it.
C7_EpsInv ==
    /\ RLeq(hyper.E_MIN, epsilon)
    /\ RLeq(epsilon, RInt(1))
    /\ epsilon = RMax(hyper.E_MIN, RPow(hyper.E_DECAY, Len(total_point_history)))
    /\ Len(total_point_history) = 0 => epsilon = RInt(1)
C7_EpsAct ==
    /\ RLeq(epsilon', epsilon)
    /\ pc = "episode_end" =>
         /\ Len(total_point_history') = Len(total_point_history) + 1
         /\ LET decayed_n == hyper.E_DECAY.n * epsilon.n
                decayed_d == hyper.E_DECAY.d * epsilon.d
            IN  IF decayed_n * hyper.E_MIN.d >= hyper.E_MIN.n * decayed_d
                THEN epsilon'.n * decayed_d = epsilon'.d * decayed_n
                ELSE epsilon' = hyper.E_MIN
    /\ pc # "episode_end" => epsilon' = epsilon
C7_Epsilon == []C7_EpsInv /\ [][C7_EpsAct]_vars
C7_Witness ==
    /\ Len(total_point_history) = 2
    /\ epsilon = hyper.E_MIN
    /\ RLt(RPow(hyper.E_DECAY, 2), hyper.E_MIN)

\* The average the loop computes at the end of episode k (k >= 1), written out:
\* the sum of the entries k - w + 1 .. k over w, for w = min(num_p_av, k).
RECURSIVE SumRange(_, _, _)
SumRange(sq, lo, hi) == IF lo > hi THEN 0 ELSE sq[lo] + SumRange(sq, lo + 1, hi)
WindowAt(k) == Min(num_p_av, k)
MeetsAt(k) ==
    SumRange(total_point_history, k - WindowAt(k) + 1, k) >= 200 * WindowAt(k)

Running == {"episode_start", "step", "episode_end"}
Stopped == {"converged", "exhausted"}

\* C8: with the stub environment (reward 200 and done on the first step of every
\* episode) the run never ends at the episode cap or in an error, the first
\* episode end meets the threshold, so at most one episode (within 100) is
\* run, and the run does reach Converged.
C8_StubSafe ==
    env = "stub" =>
        /\ pc \notin {"exhausted", "failed"}
        /\ Len(total_point_history) <= 1
        /\ Len(total_point_history) <= 100
        /\ Len(total_point_history) = 1 =>
              /\ pc = "converged"
              /\ total_point_history[1] = 200
              /\ MeetsAt(1)
C8_StubConverges ==
    /\ []C8_StubSafe
    /\ (env = "stub") ~> (pc = "converged" /\ Len(total_point_history) <= 100)
C8_Witness ==
    /\ env = "stub"
    /\ pc = "converged"
    /\ total_point_history = << 200 >>
    /\ num_appended = 1

\* C9: every run stops; it stops in Converged exactly at the first episode end
\* whose average meets 200.0, or at the cap after exactly num_episodes episodes
\* none of whose ends met it; no step is taken after either, and the run never
\* ends in an error.
C9_Safe ==
    /\ error = "none"
    /\ pc # "failed"
    /\ Len(total_point_history) <= num_episodes
    /\ \A k \in 1 .. (Len(total_point_history) - 1) : ~MeetsAt(k)
    /\ pc = "converged" =>
          /\ Len(total_point_history) >= 1
          /\ MeetsAt(Len(total_point_history))
    /\ pc = "exhausted" =>
          /\ Len(total_point_history) = num_episodes
          /\ ~MeetsAt(Len(total_point_history))
    /\ pc \in Running =>
          /\ Len(total_point_history) < num_episodes
          /\ Len(total_point_history) >= 1 => ~MeetsAt(Len(total_point_history))
C9_Terminates ==
    /\ []C9_Safe
    /\ [][pc \notin Stopped]_vars
    /\ <>(pc \in Stopped)
C9_Witness ==
    /\ pc = "exhausted"
    /\ Len(total_point_history) = num_episodes
    /\ error = "none"
    /\ \E k \in 1 .. Len(total_point_history) : total_point_history[k] > 0

\* C10: at every episode end the average is the sum of the last
\* min(num_p_av, completed episodes) totals over that count, which is at least
\* 1, so it is never a division by zero (nan); the history only grows, by the
\* finished episode's total, once per completed episode.
C10_AvgInv ==
    /\ Len(total_point_history) = 0 => av_latest_points = <<>>
    /\ Len(total_point_history) >= 1 =>
          LET n == Len(total_point_history)
              w == Min(num_p_av, n)
          IN  /\ w >= 1
              /\ Len(av_latest_points) = 1
              /\ av_latest_points[1].d # 0
              /\ av_latest_points[1].n * w
                   = av_latest_points[1].d * SumRange(total_point_history, n - w + 1, n)
    /\ pc \in Running => Len(total_point_history) = i
    /\ pc \in Stopped => Len(total_point_history) = i + 1
C10_HistAct ==
    \/ total_point_history' = total_point_history /\ pc # "episode_end"
    \/ /\ pc = "episode_end"
       /\ total_point_history' = Append(total_point_history, total_points)
C11_SaveInv ==
    /\ Len(model_file) <= 1
    /\ (Len(model_file) = 1) <=> (pc = "converged")
    /\ pc = "exhausted" => model_file = <<>>
    /\ Len(model_file) = 1 =>
          /\ model_file[1] = q_network
          /\ Solved(av_latest_points[1])
          /\ MeetsAt(Len(total_point_history))
C11_SaveAct ==
    model_file' # model_file =>
        /\ pc = "episode_end"
        /\ pc' = "converged"
        /\ model_file = <<>>
        /\ model_file' = << q_network >>
        /\ Solved(av_latest_points'[1])
C11_SavedOnceOnConverged == []C11_SaveInv /\ [][C11_SaveAct]_vars
C11_Witness ==
    /\ pc = "converged"
    /\ env = "sim"
    /\ Len(total_point_history) = 2
    /\ total_point_history[1] < 200
    /\ model_file = << q_network >>

\* C12: a pass of the step body runs a learning step exactly when the number of
\* steps taken in the episode (the pass just made included) is a multiple of
\* NUM_STEPS_FOR_UPDATE and the buffer, after the insertion, holds at least
\* BATCH_SIZE experiences; every other pass leaves both parameter sets as they
\* are; no pass ends in InsufficientDataError.
C12_LearnAct ==
    pc = "step" =>
        /\ (num_learn' = num_learn + 1)
             <=> (((t + 1) % NUM_STEPS_FOR_UPDATE = 0) /\ (Len(memory_buffer') >= BATCH_SIZE))
        /\ num_learn' \in {num_learn, num_learn + 1}
        /\ num_learn' = num_learn =>
              /\ q_network' = q_network
              /\ target_q_network' = target_q_network
              /\ primary_ticks' = primary_ticks
        /\ error' = "none"
        /\ pc' # "failed"
C12_NoError == error = "none" /\ pc # "failed"
C13_LastExp == memory_buffer[Len(memory_buffer)]
C13_StepInv ==
    /\ pc = "step" =>
          /\ t < max_num_timesteps
          /\ t = 0 => state \in EnvReset(env)
          /\ t > 0 =>
                /\ Len(memory_buffer) > 0
                /\ C13_LastExp.next_state = state
                /\ ~C13_LastExp.done
    /\ pc = "episode_end" =>
          /\ Len(memory_buffer) > 0
          /\ C13_LastExp.done \/ t + 1 = max_num_timesteps
          /\ C13_LastExp.next_state = state
C13_StepAct ==
    /\ pc = "step" =>
          /\ num_appended' = num_appended + 1
          /\ LET e == memory_buffer'[Len(memory_buffer')]
             IN  /\ e.state = state
                 /\ state' = e.next_state
                 /\ total_points' = total_points + e.reward
                 /\ IF e.done \/ t + 1 >= max_num_timesteps
                    THEN pc' = "episode_end" /\ t' = t
                    ELSE pc' = "step" /\ t' = t + 1
    /\ pc # "step" => num_appended' = num_appended
    /\ pc = "episode_end" => pc' # "step"
    /\ pc' = "step" /\ pc # "step" => pc = "episode_start" /\ t' = 0
C13_StepLoop == []C13_StepInv /\ [][C13_StepAct]_vars
C13_Witness ==
    /\ pc = "step"
    /\ t = 1
    /\ state = 1
    /\ state \notin EnvReset(env)
    /\ C13_LastExp.next_state = 1
    /\ ~C13_LastExp.done

====
